---- MODULE Spec2Model ----
(***************************************************************************)
(* Dialogue timeline and overlay assembly of the VoiceFrame generators:    *)
(*   VideoGenerator.generate_video            (Video framing/framing.py)   *)
(*   DynamicVideoGenerator.generate_video_dynamic                          *)
(*                                    (Video framing/framing_dynamic.py)   *)
(*   VoiceFrameVideoGenerator.generate_video_with_dialogues                *)
(*                                             (backend/video_gen.py)      *)
(*                                                                         *)
(* Times are integers counting tenths of a second (2.0 s is 20).           *)
(* The collaborators outside the timeline logic (reading the image and the *)
(* scene file, CompositeVideoClip, write_videofile) are taken to succeed;  *)
(* building one dialogue's border / text / bubble clip may raise.          *)
(*                                                                         *)
(* Spec runs the three generators; SpecLines runs them on blank lines and  *)
(* SpecHybrid enters through generate_video_hybrid.  SpecLayout, SpecWrap  *)
(* and SpecConvert apply the box placement, create_speech_bubble and       *)
(* convert_time_to_seconds to arguments of their own.  SpecBackendAudio    *)
(* runs the backend generator beside a filled audio directory and          *)
(* SpecVoice runs VoiceSynthesizer.synthesize_dialogues                    *)
(* (voice_generation.py).                                                  *)
(***************************************************************************)
EXTENDS Integers, Sequences, FiniteSets

\* Longest dialogue list explored.
MaxDialogues == 2

(***************************************************************************)
(* Timestamp strings.  A string is modelled by its ':'-separated parts;    *)
(* a part is what int() / float() make of it:                              *)
(*   k = "int": an integer literal of n seconds (int() and float() accept) *)
(*   k = "dec": a decimal literal worth n tenths (only float() accepts)    *)
(*   k = "bad": neither int() nor float() accepts it                       *)
(***************************************************************************)
I(n) == [k |-> "int", n |-> n]
D(n) == [k |-> "dec", n |-> n]
Bad == [k |-> "bad", n |-> 0]

IntOk(p) == p.k = "int"
FloatOk(p) == p.k \in {"int", "dec"}
IntVal(p) == p.n
FloatVal(p) == IF p.k = "int" THEN 10 * p.n ELSE p.n

\* convert_time_to_seconds raises ValueError exactly when this is FALSE.
Parses(t) ==
    CASE Len(t) = 3 -> IntOk(t[1]) /\ IntOk(t[2]) /\ FloatOk(t[3])
      [] Len(t) = 2 -> IntOk(t[1]) /\ FloatOk(t[2])
      [] Len(t) = 1 -> FloatOk(t[1])
      [] OTHER -> FALSE

\* The value convert_time_to_seconds returns, in tenths of a second.
convert_time_to_seconds(t) ==
    CASE Len(t) = 3 -> IntVal(t[1]) * 36000 + IntVal(t[2]) * 600 + FloatVal(t[3])
      [] Len(t) = 2 -> IntVal(t[1]) * 600 + FloatVal(t[2])
      [] OTHER -> FloatVal(t[1])

\* "00:00:02", "00:00:05", "00:00:10", "0:02", "2.5", "end", "0:0:0:10"
T02 == <<I(0), I(0), I(2)>>
T05 == <<I(0), I(0), I(5)>>
T10 == <<I(0), I(0), I(10)>>
TMin02 == <<I(0), I(2)>>
TSec25 == <<D(25)>>
TBadNumber == <<Bad>>
TFourParts == <<I(0), I(0), I(0), I(10)>>

\* The dialogue records the lists are drawn from: an inverted one, a
\* well-formed one, a well-formed one of half a second, an empty one and one
\* whose end does not parse.
DialoguePool ==
    { [character |-> "Frog", start |-> T05, end |-> T02, line |-> "Hi"],
      [character |-> "Frog", start |-> T05, end |-> T10, line |-> "Hello"],
      [character |-> "Scorpion", start |-> TMin02, end |-> TSec25, line |-> "No"],
      [character |-> "Frog", start |-> T05, end |-> T05, line |-> "Why"],
      [character |-> "Scorpion", start |-> T02, end |-> TFourParts, line |-> "Fine"] }

(***************************************************************************)
(* What the audio directory holds for one dialogue:                        *)
(*   file = FALSE            find_audio_file_flexible returns None         *)
(*   file = TRUE, dur = <<>> a file AudioFileClip cannot read              *)
(*   file = TRUE, dur = <<d>> a clip of d tenths                           *)
(***************************************************************************)
NoFile == [file |-> FALSE, dur |-> <<>>]
Unreadable == [file |-> TRUE, dur |-> <<>>]
Clip(d) == [file |-> TRUE, dur |-> <<d>>]
AudioPool == {NoFile, Unreadable, Clip(3), Clip(30), Clip(40)}

\* The scene's background.end: "00:00:10", "00:00:05", "end"
BackgroundEnds == {T10, T05, TBadNumber}

\* The caller's start_delay and gap_between_dialogues: the defaults (2.0, 0.5)
\* and the values test_dynamic_video_generation passes (3.0, 0.8).
Calls == { [start_delay |-> 20, gap_between_dialogues |-> 5],
           [start_delay |-> 30, gap_between_dialogues |-> 8] }

VARIABLES
    gen,                   \* which generator runs: "fixed", "dynamic", "backend"
                           \* ("hybrid" until generate_video_hybrid has chosen)
    dialogues,             \* scene_data['scene']['dialogues']
    audio,                 \* audio directory contents, per dialogue position
    bg_end,                \* scene_data['scene']['background']['end']
    start_delay,           \* argument of generate_video_dynamic
    gap_between_dialogues, \* argument of generate_video_dynamic
    pc,                    \* "start", "timeline", "dialogues", "done"
    idx,                   \* 1-based position of the loop in progress
    timeline,              \* calculate_dynamic_timeline's list
    current_time,          \* calculate_dynamic_timeline's cursor
    video_duration,
    all_clips,
    audio_clips,
    raised,                \* dialogues whose overlay construction raised
    result,                \* "pending", "True", "False"
    call,                  \* the entry point under study and its other arguments
    ret,                   \* what a function applied on its own returned
    voices,                \* VoiceSynthesizer.voices: cache key -> voice
    wavs,                  \* the WAV files synthesize_dialogues has written
    selections             \* cache keys _select_random_voice was called for

vars == <<gen, dialogues, audio, bg_end, start_delay, gap_between_dialogues,
          pc, idx, timeline, current_time, video_duration, all_clips,
          audio_clips, raised, result, call, ret, voices, wavs, selections>>

\* What the loops of a generator never assign.
input == <<gen, dialogues, audio, bg_end, start_delay, gap_between_dialogues, call, ret,
           voices, wavs, selections>>

\* A generator called directly; nothing returned by a function on its own.
Direct == [fn |-> "generator"]
Pending == [returned |-> FALSE]

\* No VoiceSynthesizer at work: nothing cached, written or selected.
synthesizer == <<voices, wavs, selections>>
NoSynthesizer == voices = <<>> /\ wavs = <<>> /\ selections = <<>>

N == Len(dialogues)

Min(a, b) == IF a <= b THEN a ELSE b
Max(a, b) == IF a >= b THEN a ELSE b

Lists(S) == UNION { [1..n -> S] : n \in 0..MaxDialogues }

Init ==
    /\ gen \in {"fixed", "dynamic", "backend"}
    /\ dialogues \in Lists(DialoguePool)
    /\ audio \in IF gen = "backend" THEN {<<>>} ELSE [1..Len(dialogues) -> AudioPool]
    /\ bg_end \in IF gen = "dynamic" THEN {T10} ELSE BackgroundEnds
    /\ \E args \in IF gen = "dynamic" THEN Calls ELSE {CHOOSE c \in Calls : c.start_delay = 20} :
          /\ start_delay = args.start_delay
          /\ gap_between_dialogues = args.gap_between_dialogues
    /\ pc = "start"
    /\ idx = 1
    /\ timeline = <<>>
    /\ current_time = 0
    /\ video_duration = 0
    /\ all_clips = <<>>
    /\ audio_clips = <<>>
    /\ raised = {}
    /\ result = "pending"
    /\ call = Direct
    /\ ret = Pending
    /\ NoSynthesizer

\* The outer "except Exception: return False" of the three generators.
Abort ==
    /\ pc' = "done"
    /\ result' = "False"
    /\ UNCHANGED <<idx, all_clips, audio_clips, raised>>

BackgroundClip(duration) ==
    [kind |-> "background", index |-> 0, start |-> 0, duration |-> duration]

(***************************************************************************)
(* DynamicVideoGenerator.calculate_dynamic_timeline                        *)
(***************************************************************************)

\* audio_duration after get_audio_duration: <<d>>, or <<>> for None.
AudioDuration(a) == IF a.file THEN a.dur ELSE <<>>

\* The fallback reads the record's own timestamps, which may raise.
TimelineRaises(d, a) ==
    AudioDuration(a) = <<>> /\ ~(Parses(d.start) /\ Parses(d.end))

\* "audio_duration = max(audio_duration, 1.0)"
MinDuration == 10

\* "gap_between_dialogues = 0.5", the local of calculate_dynamic_timeline
LocalGapBetweenDialogues == 5

\* "video_duration = timeline[-1]['end_time'] + 2.0"
EndBuffer == 20

\* "video_duration = 10.0  # Default fallback"
FallbackDuration == 100

\* Mutant: the minimum duration is not applied.
MutEntryDurationNoFloor(d, a) ==
    LET found == AudioDuration(a)
    IN  IF found # <<>> THEN found[1]
        ELSE convert_time_to_seconds(d.end) - convert_time_to_seconds(d.start)

\* Mutant: the minimum duration is applied to audio durations only.
MutEntryDurationFloorAudioOnly(d, a) ==
    LET found == AudioDuration(a)
    IN  IF found # <<>> THEN Max(found[1], MinDuration)
        ELSE convert_time_to_seconds(d.end) - convert_time_to_seconds(d.start)

\* audio_duration of the entry: the clip's or the fallback, then max(., 1.0).
EntryDuration(d, a) ==
    LET found == AudioDuration(a)
        raw == IF found # <<>> THEN found[1]
               ELSE convert_time_to_seconds(d.end) - convert_time_to_seconds(d.start)
    IN  Max(raw, MinDuration)

\* Mutant: the cursor advances by the duration alone.
MutNextCursorNoGap(cursor, duration) == cursor + duration

\* current_time += audio_duration + gap_between_dialogues, the local 0.5.
NextCursor(cursor, duration) == cursor + duration + LocalGapBetweenDialogues

TimelineEntry(i, d, a, cursor) ==
    [index |-> i,
     start_time |-> cursor,
     end_time |-> cursor + EntryDuration(d, a),
     duration |-> EntryDuration(d, a),
     audio_file |-> a.file]

\* Mutant: the video ends with the last entry.
MutTotalDurationNoBuffer(tl) ==
    IF Len(tl) > 0 THEN tl[Len(tl)].end_time ELSE FallbackDuration

\* timeline[-1]['end_time'] + 2.0, or 10.0 for an empty timeline.
TotalDuration(tl) ==
    IF Len(tl) > 0 THEN tl[Len(tl)].end_time + EndBuffer ELSE FallbackDuration

DynamicBegin ==
    /\ pc = "start"
    /\ gen = "dynamic"
    /\ pc' = "timeline"
    /\ idx' = 1
    /\ timeline' = <<>>
    /\ current_time' = start_delay
    /\ UNCHANGED <<input, video_duration, all_clips, audio_clips, raised, result>>

TimelineStep ==
    /\ pc = "timeline"
    /\ idx <= N
    /\ LET d == dialogues[idx]
           a == audio[idx]
       IN  IF TimelineRaises(d, a)
           THEN Abort /\ UNCHANGED <<timeline, current_time>>
           ELSE /\ timeline' = Append(timeline, TimelineEntry(idx, d, a, current_time))
                /\ current_time' = NextCursor(current_time, EntryDuration(d, a))
                /\ idx' = idx + 1
                /\ UNCHANGED <<pc, all_clips, audio_clips, raised, result>>
    /\ UNCHANGED <<input, video_duration>>

TimelineReturn ==
    /\ pc = "timeline"
    /\ idx > N
    /\ video_duration' = TotalDuration(timeline)
    /\ all_clips' = <<BackgroundClip(TotalDuration(timeline))>>
    /\ audio_clips' = <<>>
    /\ pc' = "dialogues"
    /\ idx' = 1
    /\ UNCHANGED <<input, timeline, current_time, raised, result>>

(***************************************************************************)
(* Building one dialogue's overlay: the inner try block of the loops.      *)
(* framing.py and framing_dynamic.py append a border clip and then a text  *)
(* clip; backend/video_gen.py appends one speech-bubble image clip.        *)
(***************************************************************************)
\* "min(0.2, ...)": the longest fade, 0.2 s, in sixtieths of a second.
MaxFade == 12

\* Mutant: the fade is always the longest one.
MutFadeDurationConstant(line_duration) == MaxFade

\* FADE_DURATION = min(0.2, line_duration / 6.0), in sixtieths of a second:
\* a sixth of line_duration tenths of a second is line_duration sixtieths.
FadeDuration(line_duration) == Min(MaxFade, line_duration)

\* The fade-in and fade-out put on a clip, under "if FADE_DURATION > 0".
\* framing.py and framing_dynamic.py fade the border only, never the TextClip;
\* backend/video_gen.py fades the bubble.
AppliedFade(kind, line_duration) ==
    IF kind \in {"border", "bubble"} /\ FadeDuration(line_duration) > 0
    THEN [fade_in |-> FadeDuration(line_duration), fade_out |-> FadeDuration(line_duration)]
    ELSE [fade_in |-> 0, fade_out |-> 0]

OverlayClip(kind, i, start, duration) ==
    [kind |-> kind, index |-> i, start |-> start, duration |-> duration,
     fade_in |-> AppliedFade(kind, duration).fade_in,
     fade_out |-> AppliedFade(kind, duration).fade_out]

\* What the construction of the clips can do.
BuildOutcomes(g) ==
    IF g = "backend" THEN {"ok", "raises"}
    ELSE {"ok", "border_raises", "text_raises"}

\* Mutant: the clip is put in front of the list.
MutAppendClipFront(clips, c) == <<c>> \o clips

\* all_clips.append(clip)
AppendClip(clips, c) == Append(clips, c)

\* all_clips when the try block is left, normally or through its handler.
ClipsAfterBuild(clips, g, i, start, duration, outcome) ==
    IF g = "backend"
    THEN IF outcome = "ok"
         THEN AppendClip(clips, OverlayClip("bubble", i, start, duration))
         ELSE clips
    ELSE CASE outcome = "border_raises" -> clips
           [] outcome = "text_raises" ->
                AppendClip(clips, OverlayClip("border", i, start, duration))
           [] OTHER ->
                AppendClip(AppendClip(clips, OverlayClip("border", i, start, duration)),
                           OverlayClip("text", i, start, duration))

\* Mutant: the exception reaches the outer handler, which returns False.
MutAfterOverlayErrorAborts(i) == [pc |-> "done", idx |-> i, result |-> "False"]

\* "except Exception as e: ... continue" inside the dialogue loop.
AfterOverlayError(i) == [pc |-> "dialogues", idx |-> i + 1, result |-> "pending"]

\* The loop goes on to the next dialogue.
Continue(i) == [pc |-> "dialogues", idx |-> i + 1, result |-> "pending"]

BuildOverlay(i, start, duration) ==
    \E outcome \in BuildOutcomes(gen) :
        LET next == IF outcome = "ok" THEN Continue(i) ELSE AfterOverlayError(i)
        IN  /\ all_clips' = ClipsAfterBuild(all_clips, gen, i, start, duration, outcome)
            /\ raised' = IF outcome = "ok" THEN raised ELSE raised \cup {i}
            /\ pc' = next.pc
            /\ idx' = next.idx
            /\ result' = next.result

AudioClip(i, start, duration) == [index |-> i, start |-> start, duration |-> duration]

(***************************************************************************)
(* DynamicVideoGenerator.generate_video_dynamic: the loop over the timeline*)
(***************************************************************************)

\* The audio clip of an entry: untrimmed unless over 1.2 times the entry.
DynamicAudio(clips, entry, a) ==
    IF entry.audio_file /\ a.dur # <<>>
    THEN LET d == a.dur[1]
             kept == IF d * 10 > entry.duration * 12 THEN entry.duration ELSE d
         IN  Append(clips, AudioClip(entry.index, entry.start_time, kept))
    ELSE clips

DynamicEntryStep ==
    /\ pc = "dialogues"
    /\ gen = "dynamic"
    /\ idx <= Len(timeline)
    /\ LET entry == timeline[idx]
       IN  /\ audio_clips' = DynamicAudio(audio_clips, entry, audio[idx])
           /\ BuildOverlay(entry.index, entry.start_time, entry.duration)
    /\ UNCHANGED <<input, timeline, current_time, video_duration>>

DynamicCompose ==
    /\ pc = "dialogues"
    /\ gen = "dynamic"
    /\ idx > Len(timeline)
    /\ pc' = "done"
    /\ result' = "True"
    /\ UNCHANGED <<input, idx, timeline, current_time, video_duration, all_clips,
                   audio_clips, raised>>

(***************************************************************************)
(* Fixed timing: VideoGenerator.generate_video and                         *)
(* VoiceFrameVideoGenerator.generate_video_with_dialogues                  *)
(***************************************************************************)

\* Mutant: the clip lasts until end_sec seconds after its start.
MutFixedIntervalEndAsDuration(d) ==
    [start |-> convert_time_to_seconds(d.start),
     duration |-> convert_time_to_seconds(d.end)]

\* start_sec and line_duration of a record whose timestamps parse.
FixedInterval(d) ==
    [start |-> convert_time_to_seconds(d.start),
     duration |-> convert_time_to_seconds(d.end) - convert_time_to_seconds(d.start)]

\* Mutant: only negative durations are skipped.
MutInvalidDurationStrict(line_duration) == line_duration < 0

\* "if line_duration <= 0: ... continue"
InvalidDuration(line_duration) == line_duration <= 0

\* framing.py: the clip starts with the dialogue and is cut to its length.
FixedAudio(clips, i, iv, a) ==
    IF a.file /\ a.dur # <<>>
    THEN Append(clips, AudioClip(i, iv.start, Min(a.dur[1], iv.duration)))
    ELSE clips

FixedBegin ==
    /\ pc = "start"
    /\ gen = "fixed"
    /\ IF Parses(bg_end)
       THEN /\ video_duration' = convert_time_to_seconds(bg_end)
            /\ all_clips' = <<BackgroundClip(convert_time_to_seconds(bg_end))>>
            /\ audio_clips' = <<>>
            /\ pc' = "dialogues"
            /\ idx' = 1
            /\ UNCHANGED <<raised, result>>
       ELSE Abort /\ UNCHANGED video_duration
    /\ UNCHANGED <<input, timeline, current_time>>

FixedDialogueStep ==
    /\ pc = "dialogues"
    /\ gen = "fixed"
    /\ idx <= N
    /\ LET d == dialogues[idx]
       IN  IF ~(Parses(d.start) /\ Parses(d.end))
           THEN Abort
           ELSE LET iv == FixedInterval(d)
                IN  IF InvalidDuration(iv.duration)
                    THEN /\ idx' = idx + 1
                         /\ UNCHANGED <<pc, all_clips, audio_clips, raised, result>>
                    ELSE /\ audio_clips' = FixedAudio(audio_clips, idx, iv, audio[idx])
                         /\ BuildOverlay(idx, iv.start, iv.duration)
    /\ UNCHANGED <<input, timeline, current_time, video_duration>>

FixedCompose ==
    /\ pc = "dialogues"
    /\ gen = "fixed"
    /\ idx > N
    /\ pc' = "done"
    /\ result' = "True"
    /\ UNCHANGED <<input, idx, timeline, current_time, video_duration, all_clips,
                   audio_clips, raised>>

BackendBegin ==
    /\ pc = "start"
    /\ gen = "backend"
    /\ IF N = 0
       THEN Abort /\ UNCHANGED video_duration
       ELSE IF Parses(bg_end)
            THEN /\ video_duration' = convert_time_to_seconds(bg_end)
                 /\ all_clips' = <<BackgroundClip(convert_time_to_seconds(bg_end))>>
                 /\ pc' = "dialogues"
                 /\ idx' = 1
                 /\ UNCHANGED <<audio_clips, raised, result>>
            ELSE Abort /\ UNCHANGED video_duration
    /\ UNCHANGED <<input, timeline, current_time>>

BackendDialogueStep ==
    /\ pc = "dialogues"
    /\ gen = "backend"
    /\ idx <= N
    /\ LET d == dialogues[idx]
       IN  IF ~(Parses(d.start) /\ Parses(d.end))
           THEN /\ idx' = idx + 1
                /\ UNCHANGED <<pc, all_clips, raised, result>>
           ELSE LET iv == FixedInterval(d)
                IN  IF InvalidDuration(iv.duration)
                    THEN /\ idx' = idx + 1
                         /\ UNCHANGED <<pc, all_clips, raised, result>>
                    ELSE BuildOverlay(idx, iv.start, iv.duration)
    /\ UNCHANGED <<input, timeline, current_time, video_duration, audio_clips>>

(***************************************************************************)
(* The backend's audio directory is what os.listdir yields: a sequence of  *)
(* files in no particular order.  A file carries the number its name       *)
(* starts with, whether the stem (the name up to the first dot) is all     *)
(* digits ("1.wav") or not ("001_Frog_00-00-05_00-00-10.wav"), and its     *)
(* duration (<<>> when the file cannot be decoded).                        *)
(***************************************************************************)
AudioFile(index, digits, dur) == [index |-> index, digits |-> digits, dur |-> dur]

\* "key=lambda x: int(x.split('.')[0]) if x.split('.')[0].isdigit() else 0"
SortKey(f) == IF f.digits THEN f.index ELSE 0

\* sorted(): stable, so files of equal key keep the order of the listing.
RECURSIVE Sorted(_)
Sorted(files) ==
    IF files = <<>> THEN <<>>
    ELSE LET before == Sorted(SubSeq(files, 1, Len(files) - 1))
             f      == files[Len(files)]
             keep   == { k \in 0..Len(before) :
                            \A j \in 1..k : SortKey(before[j]) <= SortKey(f) }
             at     == CHOOSE k \in keep : \A other \in keep : other <= k
         IN  SubSeq(before, 1, at) \o <<f>> \o SubSeq(before, at + 1, Len(before))

get_audio_files(listing) == Sorted(listing)

\* The duration of a clip of a seconds played (a / e + 0.05) times faster.
SpedUp(a, e) == (20 * a * e) \div (20 * a + e)

\* shutil.move(temp_audio_path, audio_file): the file now holds the faster take.
Rewrite(listing, f, dur) ==
    [k \in DOMAIN listing |->
        IF listing[k].index = f.index THEN AudioFile(f.index, f.digits, <<dur>>)
        ELSE listing[k]]

BackendAudioClip(i, start, duration, f) ==
    [index |-> i, start |-> start, duration |-> duration, file |-> f.index]

\* The first loop of the try block from dialogue i on.  Any exception
\* (ValueError of convert_time_to_seconds, a file AudioFileClip cannot
\* read, ZeroDivisionError of the speed factor) leaves the loop.
RECURSIVE SynchronizeFrom(_, _, _, _)
SynchronizeFrom(i, ds, audio_files, st) ==
    IF i > Len(ds) \/ i > Len(audio_files) THEN st
    ELSE LET dialogue == ds[i]
             f        == audio_files[i]
         IN  IF ~(Parses(dialogue.start) /\ Parses(dialogue.end)) \/ f.dur = <<>>
             THEN [st EXCEPT !.raised = TRUE]
             ELSE LET start_sec         == convert_time_to_seconds(dialogue.start)
                      end_sec           == convert_time_to_seconds(dialogue.end)
                      expected_duration == end_sec - start_sec
                      actual_duration   == f.dur[1]
                      too_long          == /\ actual_duration - expected_duration > 1
                  IN  IF too_long /\ expected_duration = 0
                      THEN [st EXCEPT !.raised = TRUE]
                      ELSE LET duration == IF too_long
                                           THEN SpedUp(actual_duration, expected_duration)
                                           ELSE actual_duration
                           IN  SynchronizeFrom(i + 1, ds,
                                   Rewrite(audio_files, f, duration),
                                   [raised  |-> FALSE,
                                    listing |-> Rewrite(st.listing, f, duration),
                                    clips   |-> Append(st.clips,
                                                BackendAudioClip(i, start_sec, duration, f))])

\* "audio_files = self.get_audio_files()" to the choice of final_clip: the
\* audio of the final video and the directory as the phase leaves it.
SynchronizedAudio(ds, listing) ==
    LET audio_files == get_audio_files(listing)
        silent      == [raised |-> FALSE, listing |-> listing, clips |-> <<>>]
    IN  IF audio_files # <<>> /\ Len(audio_files) >= Len(ds)
        THEN LET st == SynchronizeFrom(1, ds, audio_files, silent)
             IN  IF st.raised THEN [st EXCEPT !.clips = <<>>] ELSE st
        ELSE silent

BackendCompose ==
    /\ pc = "dialogues"
    /\ gen = "backend"
    /\ idx > N
    /\ LET st == SynchronizedAudio(dialogues, audio)
       IN  /\ audio_clips' = st.clips
           /\ audio' = st.listing
    /\ pc' = "done"
    /\ result' = "True"
    /\ UNCHANGED <<gen, dialogues, bg_end, start_delay, gap_between_dialogues, call, ret,
                   synthesizer, idx, timeline, current_time, video_duration, all_clips,
                   raised>>

Next ==
    \/ DynamicBegin
    \/ TimelineStep
    \/ TimelineReturn
    \/ DynamicEntryStep
    \/ DynamicCompose
    \/ FixedBegin
    \/ FixedDialogueStep
    \/ FixedCompose
    \/ BackendBegin
    \/ BackendDialogueStep
    \/ BackendCompose

Spec == Init /\ [][Next]_vars

(***************************************************************************)
(* The backend generator beside the directory a synthesizer filled: one    *)
(* file per dialogue, named by the synthesizer ("000_Frog_...wav") or by   *)
(* bare numbers ("0.wav"), listed in any order; the last file may be       *)
(* missing.  Records whose end precedes their start are not in the pool:   *)
(* what a negative speed factor does is the audio library's affair.        *)
(***************************************************************************)
SyncedPool ==
    { d \in DialoguePool :
         Parses(d.start) /\ Parses(d.end)
             => convert_time_to_seconds(d.end) >= convert_time_to_seconds(d.start) }

\* Durations of the takes, in tenths of a second; <<>> is an undecodable file.
TakeDurations == {<<10>>, <<60>>, <<>>}

Permutations(n) ==
    { p \in [1..n -> 1..n] : \A a, b \in 1..n : p[a] = p[b] => a = b }

Listings(n) ==
    { [k \in 1..Len(p) |-> AudioFile(p[k] - 1, digits, durs[p[k]])] :
          p \in Permutations(n) \cup { SubSeq(q, 1, n - 1) : q \in Permutations(n) },
          digits \in BOOLEAN,
          durs \in [1..n -> TakeDurations] }

InitBackendAudio ==
    /\ gen = "backend"
    /\ dialogues \in Lists(SyncedPool)
    /\ audio \in Listings(Len(dialogues))
    /\ bg_end = T10
    /\ start_delay = 20
    /\ gap_between_dialogues = 5
    /\ pc = "start"
    /\ idx = 1
    /\ timeline = <<>>
    /\ current_time = 0
    /\ video_duration = 0
    /\ all_clips = <<>>
    /\ audio_clips = <<>>
    /\ raised = {}
    /\ result = "pending"
    /\ call = Direct
    /\ ret = Pending
    /\ NoSynthesizer

NextBackendAudio == BackendBegin \/ BackendDialogueStep \/ BackendCompose

SpecBackendAudio == InitBackendAudio /\ [][NextBackendAudio]_vars

(***************************************************************************)
(* Functions applied on their own.  The generator's variables stay idle,   *)
(* call holds the arguments and ret receives the value.                    *)
(***************************************************************************)
generator == <<dialogues, audio, bg_end, start_delay, gap_between_dialogues, pc, idx,
               timeline, current_time, video_duration, all_clips, audio_clips,
               raised, result>>

Idle ==
    /\ dialogues = <<>>
    /\ audio = <<>>
    /\ bg_end = T10
    /\ start_delay = 20
    /\ gap_between_dialogues = 5
    /\ pc = "idle"
    /\ idx = 1
    /\ timeline = <<>>
    /\ current_time = 0
    /\ video_duration = 0
    /\ all_clips = <<>>
    /\ audio_clips = <<>>
    /\ raised = {}
    /\ result = "pending"
    /\ NoSynthesizer

(***************************************************************************)
(* Where a dialogue's box goes: the character's preference, the size of    *)
(* the box and its position, as the dialogue loops of                      *)
(* generate_video_dynamic and generate_video_with_dialogues compute them.  *)
(* Lengths are pixels.  A dict is a function on its keys; the optional     *)
(* character_positions argument is <<>> for None and <<dict>> otherwise.   *)
(***************************************************************************)

\* dict.get(key, default)
Get(cfg, key, default) == IF key \in DOMAIN cfg THEN cfg[key] ELSE default

EmptyDict == [k \in {} |-> k]

\* framing_dynamic.py: "if character_positions is None"
DynamicDefaultPositions ==
    [Scorpion |-> [side |-> "left", max_width |-> 450],
     Frog |-> [side |-> "right", max_width |-> 450]]

\* backend/video_gen.py: "if not character_positions"
BackendDefaultPositions ==
    [Scorpion |-> [side |-> "left", max_width |-> 400, tail_side |-> "left"],
     Frog |-> [side |-> "right", max_width |-> 400, tail_side |-> "right"]]

EffectivePositions(g, character_positions) ==
    IF g = "backend"
    THEN IF Len(character_positions) = 0 \/ DOMAIN character_positions[1] = {}
         THEN BackendDefaultPositions
         ELSE character_positions[1]
    ELSE IF Len(character_positions) = 0
         THEN DynamicDefaultPositions
         ELSE character_positions[1]

\* The max_width of a character without one.
DefaultMaxWidth == 400

\* side, vertical, max_width and tail_side of a character.  The backend reads
\* no "vertical" (its bubbles are placed as for "bottom"); the dynamic
\* generator draws no tail.
Preference(g, positions, char_name) ==
    IF g = "backend"
    THEN LET char_config == IF char_name \in DOMAIN positions
                            THEN positions[char_name]
                            ELSE [side |-> "left", max_width |-> DefaultMaxWidth]
             side == Get(char_config, "side", "left")
         IN  [side |-> side,
              vertical |-> "bottom",
              max_width |-> Get(char_config, "max_width", DefaultMaxWidth),
              tail_side |-> Get(char_config, "tail_side",
                                IF side = "left" THEN "left" ELSE "right")]
    ELSE IF char_name \in DOMAIN positions
         THEN LET char_config == positions[char_name]
              IN  [side |-> Get(char_config, "side", "left"),
                   vertical |-> Get(char_config, "vertical", "bottom"),
                   max_width |-> Get(char_config, "max_width", DefaultMaxWidth),
                   tail_side |-> "none"]
         ELSE [side |-> "left", vertical |-> "bottom", max_width |-> DefaultMaxWidth,
               tail_side |-> "none"]

\* estimate_text_dimensions: "+ 20" on the widest line and on the lines' height
EstimateSlack == 20
\* "border_padding = 10"
BorderPadding == 10
\* "padding=12", the argument given to create_speech_bubble
BubblePadding == 12
\* "tail_width = 15", "tail_height = 20"
TailWidth == 15
TailHeight == 20

\* Width and height of the box that is positioned, for wrapped text whose
\* widest line measures text.w and whose lines are text.h high together:
\* the border of the dynamic generator, the bubble image of the backend.
Box(g, pref, text) ==
    IF g = "backend"
    THEN [w |-> text.w + 2 * BubblePadding + TailWidth,
          h |-> text.h + 2 * BubblePadding + TailHeight]
    ELSE [w |-> Min(pref.max_width, text.w + EstimateSlack) + BorderPadding,
          h |-> text.h + EstimateSlack + BorderPadding]

\* "margin_x = 40" / "margin = 40", "margin_y = 60" / "bottom_margin = 60"
MarginX == 40
MarginY == 60

\* Mutant: the right-hand position forgets the width of the box.
MutPlaceXNoWidth(side, canvas_w, box_w) ==
    IF side = "left" THEN MarginX ELSE canvas_w - MarginX

\* border_x / text_x: "if side == 'left': ... else:  # right side"
PlaceX(side, canvas_w, box_w) ==
    IF side = "left" THEN MarginX ELSE canvas_w - MarginX - box_w

\* Mutant: the dynamic generator places every box from the bottom.
MutPlaceYAlwaysBottom(g, vertical, canvas_h, box_h) == canvas_h - MarginY - box_h

\* border_y: "if vertical == 'top': ... else:  # bottom"; the backend has
\* the single "text_y = H - bottom_margin - text_img.height".
PlaceY(g, vertical, canvas_h, box_h) ==
    IF g = "dynamic" /\ vertical = "top"
    THEN MarginY
    ELSE canvas_h - MarginY - box_h

\* The mappings callers pass as character_positions: None, {}, the two of
\* test2.py, and one with a centred character, one without tail_side and
\* one without side.
PositionsPool ==
    { <<>>,
      <<EmptyDict>>,
      <<[Scorpion |-> [side |-> "left", vertical |-> "top", max_width |-> 500],
         Frog |-> [side |-> "right", vertical |-> "top", max_width |-> 500]]>>,
      <<[Scorpion |-> [side |-> "left", vertical |-> "bottom", max_width |-> 480],
         Frog |-> [side |-> "right", vertical |-> "bottom", max_width |-> 480]]>>,
      <<[Scorpion |-> [side |-> "center", vertical |-> "top", max_width |-> 1300],
         Frog |-> [side |-> "right", vertical |-> "top"],
         Turtle |-> [vertical |-> "top", tail_side |-> "right"]]>> }

CharacterNames == {"Scorpion", "Frog", "Turtle", "Unknown"}

\* background_clip.size
Canvases == {[w |-> 1280, h |-> 720], [w |-> 640, h |-> 480]}

\* Measured text: one short line, three lines, and a block wider and higher
\* than either canvas.
TextExtents == {[w |-> 96, h |-> 24], [w |-> 380, h |-> 72], [w |-> 1290, h |-> 740]}

InitLayout ==
    /\ gen \in {"dynamic", "backend"}
    /\ Idle
    /\ call \in [fn : {"layout"},
                 character_positions : PositionsPool,
                 char_name : CharacterNames,
                 canvas : Canvases,
                 text : TextExtents]
    /\ ret = Pending

ApplyLayout ==
    /\ call.fn = "layout"
    /\ ~ret.returned
    /\ LET positions == EffectivePositions(gen, call.character_positions)
           pref == Preference(gen, positions, call.char_name)
           box == Box(gen, pref, call.text)
       IN  ret' = [returned |-> TRUE,
                   pref |-> pref,
                   box |-> box,
                   x |-> PlaceX(pref.side, call.canvas.w, box.w),
                   y |-> PlaceY(gen, pref.vertical, call.canvas.h, box.h)]
    /\ UNCHANGED <<gen, generator, synthesizer, call>>

NextLayout == ApplyLayout

SpecLayout == InitLayout /\ [][NextLayout]_vars

(***************************************************************************)
(* ImprovedTextRenderer._wrap_text and create_speech_bubble.               *)
(* A text is a sequence of tokens: 0 is a run of whitespace, a positive    *)
(* number is a word, given by the width in pixels the font measures for    *)
(* it.  A line is the sequence of its words, joined by single spaces.      *)
(***************************************************************************)

\* Most tokens in a text.
MaxTokens == 3

\* Width the font gives a single space between two words.
SpaceWidth == 6

IsWord(token) == token > 0

\* text.split()
Split(text) == SelectSeq(text, IsWord)

RECURSIVE Sum(_)
Sum(widths) == IF widths = <<>> THEN 0 ELSE Head(widths) + Sum(Tail(widths))

\* _get_text_dimensions(line, font)[0]
Measure(line) ==
    IF line = <<>> THEN 0 ELSE Sum(line) + SpaceWidth * (Len(line) - 1)

\* Mutant: every word is taken onto the current line.
MutFitsAlways(test_line, max_width) == TRUE

\* "if text_width <= max_width"
Fits(test_line, max_width) == Measure(test_line) <= max_width

\* Mutant: the line is appended even when it is empty.
MutCloseAlways(lines, current_line) == Append(lines, current_line)

\* lines.append(current_line) under "if current_line"
Close(lines, current_line) ==
    IF current_line # <<>> THEN Append(lines, current_line) ELSE lines

\* The loop of _wrap_text over the remaining words, and its final append.
RECURSIVE WrapFrom(_, _, _, _)
WrapFrom(words, current_line, lines, max_width) ==
    IF words = <<>>
    THEN Close(lines, current_line)
    ELSE LET word == Head(words)
             test_line == Append(current_line, word)
         IN  IF Fits(test_line, max_width)
             THEN WrapFrom(Tail(words), test_line, lines, max_width)
             ELSE WrapFrom(Tail(words), <<word>>, Close(lines, current_line), max_width)

_wrap_text(text, max_width) == WrapFrom(Split(text), <<>>, <<>>, max_width)

RECURSIVE MaxWidth(_)
MaxWidth(lines) ==
    IF lines = <<>> THEN 0 ELSE Max(Measure(Head(lines)), MaxWidth(Tail(lines)))

\* "line_height = self.font_size + 4"
LineGap == 4
LineHeight(font_size) == font_size + LineGap

\* Mutant: the padding is added on one side only.
MutBubbleExtentOnePadding(text_extent, padding) == text_extent + padding

\* bubble_width / bubble_height: the text's extent and the padding twice.
BubbleExtent(text_extent, padding) == text_extent + 2 * padding

\* bubble_x: the tail's room is on the left unless the tail is on the right.
BubbleX(add_tail, tail_side) ==
    IF add_tail /\ tail_side = "right" THEN 0
    ELSE IF add_tail THEN TailWidth ELSE 0

\* The radius _draw_rounded_rectangle draws with: its argument, as given.
DrawnRadius(corner_radius, bubble_width, bubble_height) == corner_radius

\* "bubble_height - 30", "bubble_height - 10": the tail's top and its base
TailTopRise == 30
TailBaseRise == 10

Point(x, y) == [x |-> x, y |-> y]

\* Mutant: the tail is always drawn on the right.
MutTailPointsAlwaysRight(bubble_x, bubble_y, bubble_width, bubble_height, tail_side) ==
    << Point(bubble_x + bubble_width, bubble_y + bubble_height - TailTopRise),
       Point(bubble_x + bubble_width + TailWidth, bubble_y + bubble_height - TailBaseRise),
       Point(bubble_x + bubble_width, bubble_y + bubble_height - TailBaseRise) >>

\* tail_points of _draw_speech_tail: top, tip and bottom of the tail.
TailPoints(bubble_x, bubble_y, bubble_width, bubble_height, tail_side) ==
    IF tail_side = "left"
    THEN << Point(bubble_x, bubble_y + bubble_height - TailTopRise),
            Point(bubble_x - TailWidth, bubble_y + bubble_height - TailBaseRise),
            Point(bubble_x, bubble_y + bubble_height - TailBaseRise) >>
    ELSE << Point(bubble_x + bubble_width, bubble_y + bubble_height - TailTopRise),
            Point(bubble_x + bubble_width + TailWidth, bubble_y + bubble_height - TailBaseRise),
            Point(bubble_x + bubble_width, bubble_y + bubble_height - TailBaseRise) >>

\* Mutant: every line starts at the left edge of the content area.
MutLineOffsetLeftAligned(bubble_x, padding, actual_text_width, line_width) ==
    bubble_x + padding

\* x_offset of a line: "bubble_x + padding + (actual_text_width - line_width) // 2"
LineOffset(bubble_x, padding, actual_text_width, line_width) ==
    bubble_x + padding + (actual_text_width - line_width) \div 2

\* What create_speech_bubble computes and draws: the wrapped lines, the size
\* of the bubble and of the image, the rounded rectangle, the tail and the
\* place of every line.
create_speech_bubble(text, max_width, padding, corner_radius, add_tail, tail_side, font_size) ==
    LET content_width == max_width - 2 * padding
        lines == _wrap_text(text, content_width)
        text_height == Len(lines) * LineHeight(font_size)
        actual_text_width == MaxWidth(lines)
        bubble_width == BubbleExtent(actual_text_width, padding)
        bubble_height == BubbleExtent(text_height, padding)
        bubble_x == BubbleX(add_tail, tail_side)
        bubble_y == 0
    IN  [returned |-> TRUE,
         lines |-> lines,
         actual_text_width |-> actual_text_width,
         bubble_width |-> bubble_width,
         bubble_height |-> bubble_height,
         img_width |-> IF add_tail THEN bubble_width + TailWidth ELSE bubble_width,
         img_height |-> IF add_tail THEN bubble_height + TailHeight ELSE bubble_height,
         bubble_x |-> bubble_x,
         bubble_y |-> bubble_y,
         radius |-> DrawnRadius(corner_radius, bubble_width, bubble_height),
         tail |-> IF add_tail
                  THEN TailPoints(bubble_x, bubble_y, bubble_width, bubble_height, tail_side)
                  ELSE <<>>,
         x_offset |-> [k \in 1..Len(lines) |->
                          LineOffset(bubble_x, padding, actual_text_width, Measure(lines[k]))],
         y_offset |-> [k \in 1..Len(lines) |->
                          bubble_y + padding + (k - 1) * LineHeight(font_size)]]

\* Whitespace, and words of 40, 90 and 301 pixels.
Tokens == {0, 40, 90, 301}

Texts == UNION { [1..n -> Tokens] : n \in 0..MaxTokens }

\* max_width: a narrow bubble, and the default of a character.
MaxWidths == {160, 400}

\* padding: the value generate_video_with_dialogues passes, and the default.
Paddings == {12, 15}

\* corner_radius: the default, and the value generate_video_with_dialogues passes.
CornerRadii == {15, 18}

\* font_size: the default, and a larger one.
FontSizes == {20, 26}

InitWrap ==
    /\ gen = "backend"
    /\ Idle
    /\ call \in [fn : {"create_speech_bubble"},
                 text : Texts,
                 max_width : MaxWidths,
                 padding : Paddings,
                 corner_radius : CornerRadii,
                 add_tail : BOOLEAN,
                 tail_side : {"left", "right"},
                 font_size : FontSizes]
    /\ ret = Pending

ApplySpeechBubble ==
    /\ call.fn = "create_speech_bubble"
    /\ ~ret.returned
    /\ ret' = create_speech_bubble(call.text, call.max_width, call.padding,
                                   call.corner_radius, call.add_tail, call.tail_side,
                                   call.font_size)
    /\ UNCHANGED <<gen, generator, synthesizer, call>>

NextWrap == ApplySpeechBubble

SpecWrap == InitWrap /\ [][NextWrap]_vars

(***************************************************************************)
(* The generators on dialogues whose line may be blank.                    *)
(***************************************************************************)

\* line_text values that are empty or hold whitespace only.
BlankLines == {"", "   "}

\* A spoken record, one with an empty line and one with a line of spaces.
LinePool ==
    { [character |-> "Frog", start |-> T05, end |-> T10, line |-> "Hello"],
      [character |-> "Frog", start |-> T05, end |-> T10, line |-> ""],
      [character |-> "Scorpion", start |-> TMin02, end |-> TSec25, line |-> "   "] }

InitLines ==
    /\ gen \in {"fixed", "dynamic", "backend"}
    /\ dialogues \in Lists(LinePool)
    /\ audio \in IF gen = "backend" THEN {<<>>} ELSE [1..Len(dialogues) -> {NoFile}]
    /\ bg_end = T10
    /\ start_delay = 20
    /\ gap_between_dialogues = 5
    /\ pc = "start"
    /\ idx = 1
    /\ timeline = <<>>
    /\ current_time = 0
    /\ video_duration = 0
    /\ all_clips = <<>>
    /\ audio_clips = <<>>
    /\ raised = {}
    /\ result = "pending"
    /\ call = Direct
    /\ ret = Pending
    /\ NoSynthesizer

SpecLines == InitLines /\ [][Next]_vars

(***************************************************************************)
(* convert_time_to_seconds applied to one string.                          *)
(***************************************************************************)

\* Most ':'-separated parts in a string.
MaxParts == 4

\* "-1", "0", "1" or "01", "2", "3", "90", "30.5", and a part that is no number.
Parts == {I(-1), I(0), I(1), I(2), I(3), I(90), D(305), Bad}

TimeStrings == UNION { [1..n -> Parts] : n \in 1..MaxParts }

InitConvert ==
    /\ gen = "backend"
    /\ Idle
    /\ call \in [fn : {"convert_time_to_seconds"}, time_str : TimeStrings]
    /\ ret = Pending

\* The float returned, or the ValueError raised.
ApplyConvert ==
    /\ call.fn = "convert_time_to_seconds"
    /\ ~ret.returned
    /\ ret' = IF Parses(call.time_str)
              THEN [returned |-> TRUE, error |-> FALSE,
                    value |-> convert_time_to_seconds(call.time_str)]
              ELSE [returned |-> TRUE, error |-> TRUE]
    /\ UNCHANGED <<gen, generator, synthesizer, call>>

NextConvert == ApplyConvert

SpecConvert == InitConvert /\ [][NextConvert]_vars

(***************************************************************************)
(* HybridVideoGenerator.generate_video_hybrid: call holds use_dynamic_timing*)
(* and whether an audio_dir was given; gen becomes the generator the call  *)
(* is handed to.                                                           *)
(***************************************************************************)

\* gap_between_dialogues: the default 0.5 and the 0.6 of test_hybrid_generator
HybridGaps == {5, 6}

\* What a given audio directory holds for a dialogue.
HybridAudioPool == {NoFile, Clip(30)}

InitHybrid ==
    /\ gen = "hybrid"
    /\ call \in [fn : {"generate_video_hybrid"},
                 use_dynamic_timing : BOOLEAN,
                 audio_dir : BOOLEAN]
    /\ dialogues \in Lists(DialoguePool)
    /\ audio \in [1..Len(dialogues) -> IF call.audio_dir THEN HybridAudioPool ELSE {NoFile}]
    /\ bg_end = T10
    /\ start_delay = 20
    /\ gap_between_dialogues \in HybridGaps
    /\ pc = "hybrid"
    /\ idx = 1
    /\ timeline = <<>>
    /\ current_time = 0
    /\ video_duration = 0
    /\ all_clips = <<>>
    /\ audio_clips = <<>>
    /\ raised = {}
    /\ result = "pending"
    /\ ret = Pending
    /\ NoSynthesizer

\* "if use_dynamic_timing and audio_dir: ... else: ..."
HybridTarget(use_dynamic_timing, audio_dir) ==
    IF use_dynamic_timing /\ audio_dir THEN "dynamic" ELSE "fixed"

HybridDispatch ==
    /\ pc = "hybrid"
    /\ gen' = HybridTarget(call.use_dynamic_timing, call.audio_dir)
    /\ pc' = "start"
    /\ UNCHANGED <<dialogues, audio, bg_end, start_delay, gap_between_dialogues, call, ret,
                   synthesizer, idx, timeline, current_time, video_duration, all_clips, audio_clips,
                   raised, result>>

NextHybrid ==
    \/ HybridDispatch
    \/ DynamicBegin
    \/ TimelineStep
    \/ TimelineReturn
    \/ DynamicEntryStep
    \/ DynamicCompose
    \/ FixedBegin
    \/ FixedDialogueStep
    \/ FixedCompose

SpecHybrid == InitHybrid /\ [][NextHybrid]_vars

(***************************************************************************)
(* Voices: VoiceSynthesizer.synthesize_dialogues gives each dialogue a     *)
(* voice and writes its WAV file.  Names are the strings the scripts       *)
(* carry, so stripping and lower-casing are tables over those strings.     *)
(***************************************************************************)
MaxRuns == 2

\* str.strip()
Strip(name) ==
    CASE name = " frog " -> "frog"
      [] name = "Frog "  -> "Frog"
      [] OTHER           -> name

\* str.lower()
Lower(name) ==
    CASE name = "Frog"     -> "frog"
      [] name = "FROG"     -> "frog"
      [] name = "Scorpion" -> "scorpion"
      [] name = "F"        -> "f"
      [] name = "Female"   -> "female"
      [] OTHER             -> name

\* str.startswith("f")
StartsWithF(word) == word \in {"f", "female"}

\* "canonical_name = char_raw.strip(); cache_key = canonical_name.lower()"
MutCacheKeyRaw(char_raw) == char_raw
CacheKey(char_raw) == Lower(Strip(char_raw))

\* The loop that builds char_gender_map: a later entry of the same key
\* overwrites an earlier one, an entry without a name is passed over.
RECURSIVE CharGenderMap(_)
CharGenderMap(characters) ==
    IF characters = <<>> THEN <<>>
    ELSE LET before == CharGenderMap(SubSeq(characters, 1, Len(characters) - 1))
             c      == characters[Len(characters)]
             key    == Lower(Strip(c.name))
             value  == IF StartsWithF(Lower(Strip(c.gender))) THEN "female" ELSE "male"
         IN  IF c.name = "" THEN before
             ELSE [k \in DOMAIN before \cup {key} |->
                      IF k = key THEN value ELSE before[k]]

\* _select_random_voice: the candidates of the first preferred folder that
\* has any; random.choice then takes one of them.
Candidates(voice_dir, gender) ==
    LET preferred == IF StartsWithF(Lower(Strip(gender)))
                     THEN <<"female", "male">> ELSE <<"male", "female">>
    IN  IF voice_dir[preferred[1]] # {} THEN voice_dir[preferred[1]]
        ELSE voice_dir[preferred[2]]

\* "f"{i:03d}_{canonical_name}_{start}_{end}.wav""; i counts from 0.
WavFile(i, char_raw, voice, run) ==
    [index |-> i, name |-> Strip(char_raw), character |-> char_raw,
     voice |-> voice, run |-> run]

SpokenPool ==
    { [character |-> "Frog", line |-> "Hi"],
      [character |-> " frog ", line |-> "Hello"],
      [character |-> "FROG", line |-> "Why"],
      [character |-> "Scorpion", line |-> "No"],
      [character |-> "", line |-> "Fine"],
      [character |-> "Scorpion", line |-> ""] }

CharacterLists ==
    { << [name |-> "Frog ", gender |-> "F"], [name |-> "Scorpion", gender |-> "male"] >>,
      << [name |-> "Scorpion", gender |-> "Female"], [name |-> "", gender |-> "F"] >> }

VoiceDirs ==
    { [female |-> {"amy", "kathleen"}, male |-> {"joe"}],
      [female |-> {}, male |-> {"joe", "ryan"}] }

InitVoice ==
    \E ds \in Lists(SpokenPool), cs \in CharacterLists, vd \in VoiceDirs :
        /\ gen = "synthesizer"
        /\ dialogues = ds
        /\ audio = <<>>
        /\ bg_end = T10
        /\ start_delay = 0
        /\ gap_between_dialogues = 0
        /\ call = [fn |-> "synthesize_dialogues", characters |-> cs,
                   voice_dir |-> vd, run |-> 1]
        /\ ret = Pending
        /\ pc = "synthesize"
        /\ idx = 1
        /\ timeline = <<>>
        /\ current_time = 0
        /\ video_duration = 0
        /\ all_clips = <<>>
        /\ audio_clips = <<>>
        /\ raised = {}
        /\ result = "pending"
        /\ NoSynthesizer

\* One pass of "for i, dlg in enumerate(dialogues)".
SynthesizeLine ==
    /\ pc = "synthesize"
    /\ idx <= N
    /\ LET dlg       == dialogues[idx]
           cache_key == CacheKey(dlg.character)
           gender    == Get(CharGenderMap(call.characters), cache_key, "male")
       IN  IF dlg.character = "" \/ dlg.line = ""
           THEN UNCHANGED synthesizer
           ELSE IF cache_key \in DOMAIN voices
           THEN /\ wavs' = Append(wavs, WavFile(idx - 1, dlg.character,
                                                voices[cache_key], call.run))
                /\ UNCHANGED <<voices, selections>>
           ELSE \E chosen \in Candidates(call.voice_dir, gender) :
                /\ voices' = [k \in DOMAIN voices \cup {cache_key} |->
                                 IF k = cache_key THEN chosen ELSE voices[k]]
                /\ selections' = Append(selections, cache_key)
                /\ wavs' = Append(wavs, WavFile(idx - 1, dlg.character,
                                                chosen, call.run))
    /\ idx' = idx + 1
    /\ UNCHANGED <<gen, dialogues, audio, bg_end, start_delay, gap_between_dialogues,
                   call, ret, pc, timeline, current_time, video_duration,
                   all_clips, audio_clips, raised, result>>

\* The loop is exhausted and synthesize_dialogues returns.
SynthesizeReturn ==
    /\ pc = "synthesize"
    /\ idx > N
    /\ pc' = "synthesized"
    /\ UNCHANGED <<input, idx, timeline, current_time, video_duration, all_clips,
                   audio_clips, raised, result>>

\* The same synthesizer object is asked again, perhaps with another
\* character list: self.voices lives as long as the object does.
SynthesizeAgain ==
    /\ pc = "synthesized"
    /\ call.run < MaxRuns
    /\ \E cs \in CharacterLists :
           call' = [call EXCEPT !.characters = cs, !.run = call.run + 1]
    /\ pc' = "synthesize"
    /\ idx' = 1
    /\ UNCHANGED <<gen, dialogues, audio, bg_end, start_delay, gap_between_dialogues,
                   ret, synthesizer, timeline, current_time, video_duration,
                   all_clips, audio_clips, raised, result>>

NextVoice == SynthesizeLine \/ SynthesizeReturn \/ SynthesizeAgain

SpecVoice == InitVoice /\ [][NextVoice]_vars

(***************************************************************************)
(* Properties                                                              *)
(***************************************************************************)

\* The timeline is complete: calculate_dynamic_timeline has returned.
TimelineBuilt ==
    gen = "dynamic" /\ (pc = "dialogues" \/ (pc = "done" /\ result = "True"))

RecordParses(d) == Parses(d.start) /\ Parses(d.end)

\* A record fixed timing renders: both timestamps parse and end > start.
WellFormed(d) ==
    /\ RecordParses(d)
    /\ convert_time_to_seconds(d.end) > convert_time_to_seconds(d.start)

IsOverlay(c) == c.kind \in {"text", "bubble"}

\* Dialogue positions of the overlays of a clip list, in list order.
OverlayIndices(clips) ==
    LET shown == SelectSeq(clips, IsOverlay)
    IN  [k \in 1..Len(shown) |-> shown[k].index]

HasOverlay(i) == \E k \in 1..Len(all_clips) : IsOverlay(all_clips[k]) /\ all_clips[k].index = i

\* Positions 1..N satisfying Keep, in increasing order.
Positions(Keep(_)) == SelectSeq([i \in 1..N |-> i], Keep)

\* C1: in every timeline calculate_dynamic_timeline builds, consecutive entries
\* do not overlap (entry i ends no later than entry i+1 starts) and the start
\* times increase strictly.
C1_NonOverlapping ==
    \A i \in 1..(Len(timeline) - 1) :
        /\ timeline[i].end_time <= timeline[i + 1].start_time
        /\ timeline[i].start_time < timeline[i + 1].start_time

\* C1 witness: a two-entry timeline mixing a record timed by its audio clip
\* with a record without audio whose own timestamps are inverted.
C1_Witness ==
    /\ TimelineBuilt
    /\ Len(timeline) = 2
    /\ audio[1].dur # <<>>
    /\ ~audio[2].file
    /\ convert_time_to_seconds(dialogues[2].end) < convert_time_to_seconds(dialogues[2].start)

\* C2: the gap between consecutive timeline entries equals the caller's
\* gap_between_dialogues, and the first entry starts at the caller's start_delay.
C2_GapIsCallerSupplied ==
    gen = "dynamic" =>
        /\ Len(timeline) >= 1 => timeline[1].start_time = start_delay
        /\ \A i \in 1..(Len(timeline) - 1) :
              timeline[i + 1].start_time - timeline[i].end_time = gap_between_dialogues

\* C3 as stated: the duration is the audio duration raised to 1.0 s when one
\* exists, and otherwise exactly convert(end) - convert(start).
C3_FallbackIsExact ==
    \A i \in 1..Len(timeline) :
        LET e == timeline[i]
            d == dialogues[e.index]
            a == audio[e.index]
        IN  /\ e.end_time = e.start_time + e.duration
            /\ IF a.file /\ a.dur # <<>>
               THEN e.duration = Max(a.dur[1], 10)
               ELSE e.duration =
                      convert_time_to_seconds(d.end) - convert_time_to_seconds(d.start)

\* C3 amended: each record appended to the timeline gets the interval
\* (cursor, cursor + duration), where the duration is the audio clip's when a
\* readable clip exists and otherwise convert(end) - convert(start), in both
\* cases raised to at least 1.0 s.
C3_DurationFloored ==
    [][(pc = "timeline" /\ Len(timeline') = Len(timeline) + 1) =>
          LET e == timeline'[Len(timeline')]
              d == dialogues[idx]
              a == audio[idx]
              raw == IF a.file /\ a.dur # <<>>
                     THEN a.dur[1]
                     ELSE convert_time_to_seconds(d.end) - convert_time_to_seconds(d.start)
          IN  /\ e.index = idx
              /\ e.duration = (IF raw < 10 THEN 10 ELSE raw)
              /\ e.start_time = current_time
              /\ e.end_time = current_time + e.duration]_vars

\* C3 witness: a timeline holding an audio-timed entry below the floor, and a
\* timestamp-timed entry whose own span is below the floor.
C3_Witness ==
    /\ TimelineBuilt
    /\ Len(timeline) = 2
    /\ audio[1] = Clip(3)
    /\ timeline[1].duration = 10
    /\ ~audio[2].file
    /\ convert_time_to_seconds(dialogues[2].end) - convert_time_to_seconds(dialogues[2].start) = 5
    /\ timeline[2].duration = 10

\* C4: start_delay 2.0, gap 0.5 and two dialogues with audio of 3.0 s and 4.0 s
\* give the intervals (2.0, 5.0) and (5.5, 9.5) and a video of 11.5 s.
C4_Scenario ==
    ( /\ TimelineBuilt
      /\ start_delay = 20
      /\ gap_between_dialogues = 5
      /\ N = 2
      /\ audio[1] = Clip(30)
      /\ audio[2] = Clip(40) )
    => /\ Len(timeline) = 2
       /\ timeline[1].start_time = 20 /\ timeline[1].end_time = 50
       /\ timeline[2].start_time = 55 /\ timeline[2].end_time = 95
       /\ video_duration = 115

\* C4 witness: that scenario, rendered to the end.
C4_Witness ==
    /\ gen = "dynamic" /\ pc = "done" /\ result = "True"
    /\ start_delay = 20
    /\ gap_between_dialogues = 5
    /\ N = 2
    /\ audio[1] = Clip(30)
    /\ audio[2] = Clip(40)

\* C5: the dynamic video (and its background clip) lasts the last entry's
\* end_time plus 2.0 s, or 10.0 s when there is no dialogue.
C5_TotalDuration ==
    TimelineBuilt =>
        /\ N > 0 => /\ Len(timeline) = N
                    /\ video_duration = timeline[N].end_time + 20
        /\ N = 0 => video_duration = 100
        /\ all_clips[1].kind = "background"
        /\ all_clips[1].duration = video_duration

\* C5 witness: an empty dialogue list rendered as a 10.0 s video.
C5_Witness ==
    /\ gen = "dynamic" /\ pc = "done" /\ result = "True"
    /\ N = 0
    /\ video_duration = 100

\* C6: with fixed timing every clip emitted for a record starts at
\* convert(start) and lasts convert(end) - convert(start) of that record alone,
\* and every well-formed record whose clips were built is emitted.
C6_FixedPassthrough ==
    gen \in {"fixed", "backend"} =>
        /\ \A k \in 2..Len(all_clips) :
              LET c == all_clips[k]
                  d == dialogues[c.index]
              IN  /\ WellFormed(d)
                  /\ c.start = convert_time_to_seconds(d.start)
                  /\ c.start + c.duration = convert_time_to_seconds(d.end)
        /\ (pc = "done" /\ result = "True") =>
              \A i \in 1..N :
                  (WellFormed(dialogues[i]) /\ i \notin raised) => HasOverlay(i)

\* C6 witness: two well-formed records rendered by framing.py, the second with
\* an audio clip longer than the record.
C6_Witness ==
    /\ gen = "fixed" /\ pc = "done" /\ result = "True"
    /\ N = 2
    /\ HasOverlay(1) /\ HasOverlay(2)
    /\ dialogues[1] # dialogues[2]
    /\ audio[2] = Clip(40)
    /\ convert_time_to_seconds(dialogues[2].end) - convert_time_to_seconds(dialogues[2].start) = 5

AllParse == \A i \in 1..N : RecordParses(dialogues[i])

EndNotAfterStart(i) ==
    /\ RecordParses(dialogues[i])
    /\ convert_time_to_seconds(dialogues[i].end) <= convert_time_to_seconds(dialogues[i].start)

EndAfterStart(i) == WellFormed(dialogues[i])

C8_MalformedIsLocal ==
    ( /\ pc = "done"
      /\ Parses(bg_end)
      /\ N > 0
      /\ raised = {}
      /\ Cardinality({i \in 1..N : ~RecordParses(dialogues[i])}) = 1 )
    => /\ result = "True"
       /\ \A i \in 1..N :
             (RecordParses(dialogues[i]) /\ (gen = "dynamic" \/ EndAfterStart(i)))
                 => HasOverlay(i)

\* C9: an exception raised while one dialogue's overlay is built is caught:
\* that dialogue gets no overlay, the loop moves on past it, the exception
\* never makes the generator fail, and at the end every other dialogue that
\* was to be rendered has its overlay.
C9_OverlayErrorIsLocal ==
    /\ \A i \in raised :
          /\ ~HasOverlay(i)
          /\ pc = "dialogues" => idx > i
    /\ (raised # {} /\ result = "False") => (gen = "fixed" /\ ~AllParse)
    /\ (pc = "done" /\ result = "True") =>
          \A i \in 1..N :
              ( /\ i \notin raised
                /\ gen = "dynamic" \/ EndAfterStart(i) ) => HasOverlay(i)

\* C9 witness: the first dialogue's overlay raised, the second was rendered
\* and the generator returned True.
C9_Witness ==
    /\ pc = "done" /\ result = "True"
    /\ N = 2
    /\ raised = {1}
    /\ HasOverlay(2)

\* C10: the clip list of generate_video_with_dialogues is the background clip
\* of the full video duration followed by one bubble clip per valid dialogue
\* that was built, in dialogue order.
C10_ClipList ==
    (gen = "backend" /\ all_clips # <<>>) =>
        /\ all_clips[1] = BackgroundClip(convert_time_to_seconds(bg_end))
        /\ all_clips[1].duration = video_duration
        /\ \A k \in 2..Len(all_clips) : all_clips[k].kind = "bubble"
        /\ \A k, l \in 2..Len(all_clips) :
              k < l => all_clips[k].index < all_clips[l].index
        /\ pc = "done" =>
              Len(all_clips) = 1 + Cardinality({i \in 1..N : EndAfterStart(i) /\ i \notin raised})

\* C10 witness: a background and two bubbles handed to the compositor.
C10_Witness ==
    /\ gen = "backend" /\ pc = "done" /\ result = "True"
    /\ Len(all_clips) = 3

\* The clips that carry a dialogue's fade: the border and the speech bubble.
IsFaded(c) == c.kind \in {"border", "bubble"}

\* C11: every dialogue rendered with a duration d > 0 gets a fade-in and a
\* fade-out of the same length, min(0.2 s, d / 6), in the fixed, the dynamic
\* and the speech-bubble generator alike; no clip of a dialogue fades longer.
C11_FadeEnvelope ==
    \A k \in 2..Len(all_clips) :
        LET c == all_clips[k]
            sixth == c.duration  \* d / 6 in sixtieths of a second
            bound == IF sixth < 12 THEN sixth ELSE 12
        IN  /\ c.duration > 0
            /\ c.fade_in = c.fade_out
            /\ 0 <= c.fade_in /\ c.fade_in <= bound
            /\ IsFaded(c) => c.fade_in = bound

\* C11 witness: framing.py rendered a dialogue of half a second (fade d / 6)
\* and one of five seconds (fade 0.2 s).
C11_Witness ==
    /\ gen = "fixed" /\ pc = "done" /\ result = "True"
    /\ \E k \in 2..Len(all_clips) :
          IsFaded(all_clips[k]) /\ all_clips[k].duration = 5 /\ all_clips[k].fade_in = 5
    /\ \E k \in 2..Len(all_clips) :
          IsFaded(all_clips[k]) /\ all_clips[k].duration = 50 /\ all_clips[k].fade_out = 12

\* The mapping the dialogue loop looks the character up in, and the
\* character's own entry in it.
LayoutPositions == EffectivePositions(gen, call.character_positions)

Listed == call.char_name \in DOMAIN LayoutPositions

\* The character's entry sets key to value.
Wants(key, value) ==
    /\ Listed
    /\ key \in DOMAIN LayoutPositions[call.char_name]
    /\ LayoutPositions[call.char_name][key] = value

Placed == call.fn = "layout" /\ ret.returned

\* C12: in the dynamic generator the dialogue box is placed with margins 40 and
\* 60: side left gives x = 40, side right gives x = canvas_w - 40 - box_w,
\* vertical bottom gives y = canvas_h - 60 - box_h and vertical top gives
\* y = 60, in all four combinations.
C12_DynamicPlacement ==
    (Placed /\ gen = "dynamic") =>
        /\ Wants("side", "left") => ret.x = 40
        /\ Wants("side", "right") => ret.x = call.canvas.w - 40 - ret.box.w
        /\ Wants("vertical", "bottom") => ret.y = call.canvas.h - 60 - ret.box.h
        /\ Wants("vertical", "top") => ret.y = 60

\* C12 witness: the dynamic generator placed a box for a character set to the
\* right and the top, and one could not tell top from bottom by accident.
C12_Witness ==
    /\ Placed /\ gen = "dynamic"
    /\ Wants("side", "right") /\ Wants("vertical", "top")
    /\ ret.x = call.canvas.w - 40 - ret.box.w
    /\ ret.y = 60
    /\ ret.y # call.canvas.h - 60 - ret.box.h

\* C13: a character preference with side center places the box horizontally
\* centred, x = (canvas_w - box_w) / 2.
C13_CenterIsCentred ==
    (Placed /\ Wants("side", "center")) =>
        ret.x = (call.canvas.w - ret.box.w) \div 2

\* C14: in generate_video_with_dialogues a preference with vertical top places
\* the bubble at y = 60, and vertical bottom at
\* y = canvas_h - 60 - bubble image height.
C14_BackendVertical ==
    (Placed /\ gen = "backend") =>
        /\ Wants("vertical", "top") => ret.y = 60
        /\ Wants("vertical", "bottom") => ret.y = call.canvas.h - 60 - ret.box.h

\* C15: a box no wider than canvas_w - 2*40 and no higher than canvas_h - 2*60
\* is placed inside the canvas, whatever the side and vertical preference.
C15_Containment ==
    ( /\ Placed
      /\ ret.box.w <= call.canvas.w - 2 * 40
      /\ ret.box.h <= call.canvas.h - 2 * 60 )
    => /\ 0 <= ret.x
       /\ ret.x + ret.box.w <= call.canvas.w
       /\ 0 <= ret.y
       /\ ret.y + ret.box.h <= call.canvas.h

\* C15 witness: a box within the limits placed for a character set to the
\* right and the top on the small canvas by the backend.
C15_Witness ==
    /\ Placed /\ gen = "backend"
    /\ Wants("side", "right") /\ Wants("vertical", "top")
    /\ call.canvas.w = 640
    /\ ret.box.w > 400
    /\ ret.box.w <= call.canvas.w - 2 * 40
    /\ ret.box.h <= call.canvas.h - 2 * 60

Wrapped == call.fn = "create_speech_bubble" /\ ret.returned

\* Width of a line: its words and one space between neighbours.
LineWidth(line) ==
    LET RECURSIVE Total(_)
        Total(k) == IF k = 0 THEN 0 ELSE line[k] + Total(k - 1)
    IN  Total(Len(line)) + 6 * (Len(line) - 1)

\* C16: every line _wrap_text produces measures at most the limit, except a
\* line made of one word that is itself wider than the limit; so when no word
\* is wider than the limit, the bubble of create_speech_bubble(max_width,
\* padding) is at most max_width wide, tail excluded.
C16_WrapFit ==
    Wrapped =>
        LET limit == call.max_width - 2 * call.padding
        IN  /\ \A k \in 1..Len(ret.lines) :
                  \/ LineWidth(ret.lines[k]) <= limit
                  \/ Len(ret.lines[k]) = 1 /\ ret.lines[k][1] > limit
            /\ (\A t \in 1..Len(call.text) : call.text[t] <= limit)
                  => ret.bubble_width <= call.max_width

\* C16 witness: a text wrapped into a line of two words that fits exactly and
\* a line of one word wider than the limit.
C16_Witness ==
    /\ Wrapped
    /\ call.max_width = 160 /\ call.padding = 12
    /\ ret.lines = <<(<<40, 90>>), (<<301>>)>>

\* C17: a dialogue whose line is empty or whitespace-only is dropped: it has no
\* overlay in the output, while the other dialogues are rendered normally.
C17_BlankLineDropped ==
    (pc = "done" /\ result = "True") =>
        \A i \in 1..N :
            IF dialogues[i].line \in BlankLines
            THEN ~HasOverlay(i)
            ELSE (WellFormed(dialogues[i]) /\ i \notin raised) => HasOverlay(i)

\* The character's entry lacks key.
Lacks(key) == Listed /\ key \notin DOMAIN LayoutPositions[call.char_name]

\* What an unlisted character resolves to.
UnlistedDefaults ==
    ~Listed =>
        /\ ret.pref.side = "left"
        /\ ret.pref.vertical = "bottom"
        /\ ret.pref.max_width = 400
        /\ gen = "backend" => ret.pref.tail_side = "left"
        /\ ret.x = 40
        /\ ret.y = call.canvas.h - 60 - ret.box.h

\* The side of a listed character: its entry's, or left.
ListedSide == Get(LayoutPositions[call.char_name], "side", "left")

\* C18: a character absent from the preferences is no error and resolves to
\* side left, vertical bottom, max_width 400 and tail_side = side, and a
\* character present without tail_side gets a tail_side equal to its side.
C18_TailSideIsSide ==
    Placed =>
        /\ UnlistedDefaults
        /\ (gen = "backend" /\ Lacks("tail_side")) => ret.pref.tail_side = ListedSide

\* convert_time_to_seconds returned a value for the string.
Converted == call.fn = "convert_time_to_seconds" /\ ret.returned /\ ~ret.error

\* Tenths of a second a part stands for.
PartTenths(p) == IF p.k = "dec" THEN p.n ELSE 10 * p.n

\* C19: convert_time_to_seconds maps "H:M:S" to 3600 H + 60 M + S, "M:S" to
\* 60 M + S and "S" to S, so "01:02:03" gives 3723.0, "90" gives 90.0 and
\* "1:30.5" gives 90.5, and the result is non-negative for every string it
\* accepts.
C19_ConvertNonNegative ==
    Converted =>
        LET t == call.time_str
        IN  /\ Len(t) = 3 =>
                  ret.value = 36000 * t[1].n + 600 * t[2].n + PartTenths(t[3])
            /\ Len(t) = 2 => ret.value = 600 * t[1].n + PartTenths(t[2])
            /\ Len(t) = 1 => ret.value = PartTenths(t[1])
            /\ t = <<I(1), I(2), I(3)>> => ret.value = 37230
            /\ t = <<I(90)>> => ret.value = 900
            /\ t = <<I(1), D(305)>> => ret.value = 905
            /\ ret.value >= 0

\* C20: generate_video_hybrid takes the timing mode from the caller's flag:
\* use_dynamic_timing = True gives audio-based (dynamic) timing, False gives
\* scene-data (fixed) timing, and in the dynamic case the caller's
\* gap_between_dialogues is the gap of the timeline.
C20_FlagSelectsTiming ==
    (call.fn = "generate_video_hybrid" /\ pc # "hybrid") =>
        /\ call.use_dynamic_timing => gen = "dynamic"
        /\ ~call.use_dynamic_timing => gen = "fixed"
        /\ gen = "dynamic" =>
              \A i \in 1..(Len(timeline) - 1) :
                  timeline[i + 1].start_time - timeline[i].end_time = gap_between_dialogues

\* Width of the widest line, 0 without lines.
Widest(lines) ==
    IF Len(lines) = 0 THEN 0
    ELSE LET widths == {LineWidth(lines[k]) : k \in 1..Len(lines)}
         IN  CHOOSE w \in widths : \A v \in widths : v <= w

\* C21: create_speech_bubble sizes the bubble from the wrapped text: the text
\* is num_lines * (font_size + 4) high and as wide as its widest line, the
\* bubble adds 2 * padding to both, and with a tail the image is 15 wider and
\* 20 higher than the bubble.
C21_BubbleSizing ==
    Wrapped =>
        /\ ret.actual_text_width = Widest(ret.lines)
        /\ ret.bubble_width = Widest(ret.lines) + 2 * call.padding
        /\ ret.bubble_height = Len(ret.lines) * (call.font_size + 4) + 2 * call.padding
        /\ call.add_tail => /\ ret.img_width = ret.bubble_width + 15
                            /\ ret.img_height = ret.bubble_height + 20

\* C21 witness: a bubble with a tail around two lines of different widths.
C21_Witness ==
    /\ Wrapped
    /\ call.add_tail
    /\ call.font_size = 26 /\ call.padding = 12
    /\ ret.lines = <<(<<40, 90>>), (<<301>>)>>
    /\ ret.bubble_width = 325 /\ ret.bubble_height = 84
    /\ ret.img_width = 340 /\ ret.img_height = 104

\* C22: the corner radius a bubble is drawn with satisfies
\* 2 * radius <= min(bubble_width, bubble_height); a requested corner_radius
\* too large for a small bubble is clamped down.
C22_RadiusClamped ==
    Wrapped =>
        /\ 2 * ret.radius <= ret.bubble_width
        /\ 2 * ret.radius <= ret.bubble_height

Tailed == Wrapped /\ call.add_tail

\* The tail's base lies on the bubble's edge on the side of tail_side and its
\* tip 15 px outside that edge.
TailOnItsSide ==
    IF call.tail_side = "left"
    THEN /\ ret.tail[1].x = ret.bubble_x /\ ret.tail[3].x = ret.bubble_x
         /\ ret.tail[2].x = ret.bubble_x - 15
    ELSE /\ ret.tail[1].x = ret.bubble_x + ret.bubble_width
         /\ ret.tail[3].x = ret.bubble_x + ret.bubble_width
         /\ ret.tail[2].x = ret.bubble_x + ret.bubble_width + 15

C24_LineCentred ==
    Wrapped =>
        \A k \in 1..Len(ret.lines) :
            LET content_left == ret.bubble_x + call.padding
                content_width == Widest(ret.lines)
                line_width == LineWidth(ret.lines[k])
                left == ret.x_offset[k] - content_left
                right == content_left + content_width - (ret.x_offset[k] + line_width)
            IN  /\ 2 * left <= content_width - line_width
                /\ content_width - line_width < 2 * left + 2
                /\ left >= 0 /\ right >= 0
                /\ right - left \in {0, 1}

\* C24 witness: a line 165 px narrower than the widest one, drawn 82 px in
\* from the content area's left edge and 83 px from its right edge.
C24_Witness ==
    /\ Wrapped
    /\ call.add_tail /\ call.tail_side = "left" /\ call.padding = 12
    /\ ret.lines = <<(<<40, 90>>), (<<301>>)>>
    /\ ret.x_offset = <<15 + 12 + 82, 15 + 12>>

(***************************************************************************)
(* C25: the synthesizer keeps one voice per character, the character       *)
(* being the name stripped and lower-cased: any two files written for the  *)
(* same character, in one run or in two runs of the same synthesizer,      *)
(* carry the same voice, that voice is the cached one, and a voice is      *)
(* selected at most once per character.                                    *)
(***************************************************************************)
C25_OneVoicePerCharacter ==
    /\ \A a, b \in 1..Len(wavs) :
           Lower(Strip(wavs[a].character)) = Lower(Strip(wavs[b].character))
               => wavs[a].voice = wavs[b].voice
    /\ \A a \in 1..Len(wavs) :
           /\ Lower(Strip(wavs[a].character)) \in DOMAIN voices
           /\ voices[Lower(Strip(wavs[a].character))] = wavs[a].voice
    /\ \A a, b \in 1..Len(selections) : selections[a] = selections[b] => a = b

\* "Frog" and "FROG" were both spoken, in two runs, where two voices were
\* on offer, and one selection served both.
C25_Witness ==
    /\ gen = "synthesizer"
    /\ pc = "synthesized"
    /\ call.run = 2
    /\ call.voice_dir.male = {"joe", "ryan"}
    /\ selections = <<"frog">>
    /\ \E a, b \in 1..Len(wavs) :
           /\ wavs[a].character = "Frog" /\ wavs[b].character = "FROG"
           /\ wavs[a].run = 1 /\ wavs[b].run = 2
           /\ wavs[a].voice = "ryan"

(***************************************************************************)
(* C26: whenever the backend attaches audio, the clip started at dialogue  *)
(* i's start time plays the file synthesized for dialogue i (the file      *)
(* whose name starts with index i, counted from 0), whatever the order of  *)
(* the directory listing.                                                  *)
(***************************************************************************)
C26_ClipIsItsDialoguesFile ==
    (gen = "backend" /\ pc = "done")
        => \A k \in 1..Len(audio_clips) :
               /\ audio_clips[k].start = convert_time_to_seconds(dialogues[audio_clips[k].index].start)
               /\ audio_clips[k].file = audio_clips[k].index - 1

(***************************************************************************)
(* C29: in the backend an audio failure of one dialogue (zero expected     *)
(* duration, unparsable timestamp, undecodable file) removes only that     *)
(* dialogue's audio: every other dialogue, given a file per dialogue, has  *)
(* its audio clip in the final video, and a dialogue whose overlay was     *)
(* dropped as invalid has none.                                            *)
(***************************************************************************)
AudioFails(i) ==
    \/ ~(Parses(dialogues[i].start) /\ Parses(dialogues[i].end))
    \/ InvalidDuration(FixedInterval(dialogues[i]).duration)
    \/ get_audio_files(audio)[i].dur = <<>>

HasAudioClip(i) == \E k \in 1..Len(audio_clips) : audio_clips[k].index = i

C29_AudioFailureIsLocal ==
    (gen = "backend" /\ pc = "done" /\ result = "True" /\ Len(audio) >= N)
        => \A i \in 1..N : HasAudioClip(i) <=> ~AudioFails(i)

(***************************************************************************)
(* C27: every emitted overlay is fully visible within the video: it        *)
(* starts at or after 0 and ends at or before the end of the background    *)
(* clip, in all three generators.                                          *)
(***************************************************************************)
C27_OverlayWithinBackground ==
    \A k \in 2..Len(all_clips) :
        /\ all_clips[1].kind = "background"
        /\ 0 <= all_clips[k].start
        /\ all_clips[k].start + all_clips[k].duration <= all_clips[1].duration

(***************************************************************************)
(* C28: a skipped dialogue leaves no partial output in the two framing     *)
(* generators: a dialogue whose overlay raised, at the border or at the    *)
(* text clip, has neither clip in the list, and a border clip is in the    *)
(* list exactly when its dialogue's text clip is.                          *)
(***************************************************************************)
HasClip(kind, i) ==
    \E k \in 1..Len(all_clips) : all_clips[k].kind = kind /\ all_clips[k].index = i

C28_NoPartialOverlay ==
    gen \in {"fixed", "dynamic"}
        => \A i \in 1..N :
               /\ i \in raised => ~HasClip("border", i) /\ ~HasClip("text", i)
               /\ (pc = "done" /\ result = "True") => (HasClip("border", i) <=> HasClip("text", i))

(***************************************************************************)
(* C30: wrapping loses and reorders nothing: the lines of _wrap_text       *)
(* joined by single spaces are the whitespace-split words of the text      *)
(* joined by single spaces, and no line is empty.                          *)
(***************************************************************************)
RECURSIVE Joined(_)
Joined(lines) == IF lines = <<>> THEN <<>> ELSE Head(lines) \o Joined(Tail(lines))

C30_WrapKeepsWords ==
    Wrapped =>
        /\ Joined(ret.lines) = SelectSeq(call.text, LAMBDA token : token # 0)
        /\ \A k \in 1..Len(ret.lines) : ret.lines[k] # <<>>

\* A word wider than the bubble, a run of whitespace and a second word:
\* two lines, the long word first and whole.
C30_Witness ==
    /\ Wrapped
    /\ call.text = <<301, 0, 40>>
    /\ call.max_width = 160
    /\ ret.lines = << <<301>>, <<40>> >>

====
